---- MODULE Spec2Model ----
(***************************************************************************)
(* Model of src/artifact/kmap_simplify.py: the boolean minimization engine *)
(* (bracket-group parser, variable universe, minterm generation with the   *)
(* substitution of P, the prime implicant search, the exact cover          *)
(* selection and the canonical formatter).                                 *)
(*                                                                         *)
(* A Python str is a sequence of one-character strings; None is the        *)
(* distinguished value None below.  An int is an Integer, a Python set a   *)
(* set, a list a sequence, a dict a sequence of <<key, value>> pairs in    *)
(* insertion order, an implicant the pair <<term, mask>>.                  *)
(***************************************************************************)
EXTENDS Integers, Sequences, FiniteSets, TLC

(***************************************************************************)
(* Characters and strings                                                  *)
(***************************************************************************)

\* The absent value (Python None); not a sequence of characters.
None == <<"None">>

\* The characters [A-Z] of BRACKET_RE that the inputs use.
UpperLetters == {"A", "B", "C", "D", "E", "F", "G", "P", "Q"}

\* Code points, the order str comparison and sorted() use.
Ord(c) ==
  CASE c = " " -> 32
    [] c = "-" -> 45
    [] c = "A" -> 65
    [] c = "B" -> 66
    [] c = "C" -> 67
    [] c = "D" -> 68
    [] c = "E" -> 69
    [] c = "F" -> 70
    [] c = "G" -> 71
    [] c = "P" -> 80
    [] c = "Q" -> 81
    [] c = "[" -> 91
    [] c = "]" -> 93
    [] c = "x" -> 120

\* \s of the regular expression, and the characters str.strip() removes.
IsSpace(c) == c = " "

\* bool(expr) for expr a str or None: "if expr" / "if not expr".
Truthy(expr) == expr # None /\ expr # <<>>

RECURSIVE LStrip(_)
LStrip(s) ==
  IF s # <<>> /\ IsSpace(Head(s)) THEN LStrip(Tail(s)) ELSE s

RECURSIVE RStrip(_)
RStrip(s) ==
  IF s # <<>> /\ IsSpace(s[Len(s)]) THEN RStrip(SubSeq(s, 1, Len(s) - 1)) ELSE s

\* str.strip()
Strip(s) == RStrip(LStrip(s))

\* Lexicographic str comparison s < t by code point.
RECURSIVE StrLess(_, _)
StrLess(s, t) ==
  IF t = <<>> THEN FALSE
  ELSE IF s = <<>> THEN TRUE
  ELSE IF Ord(Head(s)) # Ord(Head(t)) THEN Ord(Head(s)) < Ord(Head(t))
  ELSE StrLess(Tail(s), Tail(t))

\* "".join(parts)
RECURSIVE Join(_)
Join(parts) ==
  IF parts = <<>> THEN <<>> ELSE Head(parts) \o Join(Tail(parts))

(***************************************************************************)
(* BRACKET_RE = \[\s*([A-Z]+)\s*\]  and  BRACKET_RE.findall                *)
(***************************************************************************)

\* First index >= i of s that is not whitespace (Len(s)+1 if none).
RECURSIVE SkipSpace(_, _)
SkipSpace(s, i) ==
  IF i <= Len(s) /\ IsSpace(s[i]) THEN SkipSpace(s, i + 1) ELSE i

\* First index >= i of s that is not in [A-Z] (Len(s)+1 if none).
RECURSIVE SkipUpper(_, _)
SkipUpper(s, i) ==
  IF i <= Len(s) /\ s[i] \in UpperLetters THEN SkipUpper(s, i + 1) ELSE i

\* The match of BRACKET_RE that starts at index i: [ok, group, next], where
\* group is the captured [A-Z]+ and next the index after the closing bracket.
\* The three character classes are disjoint, so the greedy match is the only one.
MatchAt(s, i) ==
  LET j == SkipSpace(s, i + 1)
      k == SkipUpper(s, j)
      l == SkipSpace(s, k)
  IN  IF s[i] = "[" /\ k > j /\ l <= Len(s) /\ s[l] = "]"
      THEN [ok |-> TRUE, group |-> SubSeq(s, j, k - 1), next |-> l + 1]
      ELSE [ok |-> FALSE, group |-> <<>>, next |-> i + 1]

\* BRACKET_RE.findall(s) scanning from index i: the captured groups of the
\* leftmost non-overlapping matches, in order.
RECURSIVE FindAllFrom(_, _)
FindAllFrom(s, i) ==
  IF i > Len(s) THEN <<>>
  ELSE LET m == MatchAt(s, i)
       IN  IF m.ok THEN <<m.group>> \o FindAllFrom(s, m.next)
           ELSE FindAllFrom(s, m.next)

FindAll(s) == FindAllFrom(s, 1)

\* set(match) for a captured group (every captured character is alphabetic).
CharSet(w) == {w[i] : i \in 1..Len(w)}

(***************************************************************************)
(* Integer bit operations                                                  *)
(***************************************************************************)

RECURSIVE Pow2(_)
Pow2(n) == IF n = 0 THEN 1 ELSE 2 * Pow2(n - 1)

\* (x >> pos) & 1
Bit(x, pos) == (x \div Pow2(pos)) % 2

\* a & b
RECURSIVE And(_, _)
And(a, b) ==
  IF a = 0 \/ b = 0 THEN 0
  ELSE (a % 2) * (b % 2) + 2 * And(a \div 2, b \div 2)

\* a | b
RECURSIVE Or(_, _)
Or(a, b) ==
  IF a = 0 THEN b
  ELSE IF b = 0 THEN a
  ELSE (IF a % 2 = 1 \/ b % 2 = 1 THEN 1 ELSE 0) + 2 * Or(a \div 2, b \div 2)

\* a ^ b
RECURSIVE Xor(_, _)
Xor(a, b) ==
  IF a = 0 THEN b
  ELSE IF b = 0 THEN a
  ELSE ((a + b) % 2) + 2 * Xor(a \div 2, b \div 2)

\* a & ~b
RECURSIVE AndNot(_, _)
AndNot(a, b) ==
  IF a = 0 THEN 0
  ELSE (IF a % 2 = 1 /\ b % 2 = 0 THEN 1 ELSE 0) + 2 * AndNot(a \div 2, b \div 2)

\* bin(x).count("1")
RECURSIVE PopCount(_)
PopCount(x) == IF x = 0 THEN 0 ELSE (x % 2) + PopCount(x \div 2)

(***************************************************************************)
(* Iteration order of a set of ints.  The language leaves it unspecified;  *)
(* the model explores the two orders named by Orders.                      *)
(***************************************************************************)

Orders == {"asc", "desc"}

SetMin(S) == CHOOSE x \in S : \A y \in S : x <= y
SetMax(S) == CHOOSE x \in S : \A y \in S : y <= x

\* sorted(S) for a set of ints
RECURSIVE Sorted(_)
Sorted(S) ==
  IF S = {} THEN <<>> ELSE <<SetMin(S)>> \o Sorted(S \ {SetMin(S)})

RECURSIVE SortedDesc(_)
SortedDesc(S) ==
  IF S = {} THEN <<>> ELSE <<SetMax(S)>> \o SortedDesc(S \ {SetMax(S)})

\* "for m in S" for a set S of ints, under the iteration order ord
SetIter(S, ord) == IF ord = "asc" THEN Sorted(S) ELSE SortedDesc(S)

(***************************************************************************)
(* extract_variables, parse_expr_to_minterms                               *)
(***************************************************************************)

\* The union of the character sets of the groups in a findall result.
RECURSIVE GroupChars(_)
GroupChars(matches) ==
  IF matches = <<>> THEN {}
  ELSE CharSet(Head(matches)) \cup GroupChars(Tail(matches))

ExtractVariables(expr) ==
  IF ~Truthy(expr) THEN {} ELSE GroupChars(FindAll(expr))

\* sorted(list(all_vars)): the characters of a set in code point order
RECURSIVE SortedChars(_)
SortedChars(S) ==
  IF S = {} THEN <<>>
  ELSE LET c == CHOOSE x \in S : \A y \in S : Ord(x) <= Ord(y)
       IN  <<c>> \o SortedChars(S \ {c})

\* Whether the assignment encoded by minterm m over variables sets every
\* factor of term to 1 (a factor missing from variables is never satisfied).
TermSatisfied(term, m, variables) ==
  \A factor \in term :
    \E i \in 1..Len(variables) :
      variables[i] = factor /\ Bit(m, Len(variables) - i) = 1

ParseExprToMinterms(expr, variables) ==
  IF ~Truthy(expr) THEN {}
  ELSE IF Strip(expr) \in {<<>>, <<"-">>} THEN {}
  ELSE LET matches == FindAll(expr)
           terms == [t \in 1..Len(matches) |-> CharSet(matches[t])]
       IN  IF terms = <<>> THEN {}
           ELSE {m \in 0..(Pow2(Len(variables)) - 1) :
                   \E t \in 1..Len(terms) : TermSatisfied(terms[t], m, variables)}

(***************************************************************************)
(* find_prime_implicants                                                   *)
(***************************************************************************)

\* AdjacentCells with the test "differ" in place of "differ by exactly one bit".
AdjacentCellsAnyDiff(cell1, cell2) == PopCount(Xor(cell1, cell2)) >= 1

AdjacentCells(cell1, cell2) == PopCount(Xor(cell1, cell2)) = 1

\* Combine that keeps the bits set in either term ("|" in place of "&").
CombineOr(item1, item2) ==
  LET diff_bit == Xor(item1[1], item2[1])
      new_term == Or(item1[1], item2[1])
      new_mask == AndNot(And(item1[2], item2[2]), diff_bit)
  IN  <<new_term, new_mask>>

\* Combine whose mask is the union of the two masks, the differing bit kept.
CombineMaskUnion(item1, item2) ==
  LET new_term == And(item1[1], item2[1])
      new_mask == Or(item1[2], item2[2])
  IN  <<new_term, new_mask>>

\* Lines 112-114: the implicant obtained by combining two adjacent items.
Combine(item1, item2) ==
  LET diff_bit == Xor(item1[1], item2[1])
      new_term == And(item1[1], item2[1])
      new_mask == AndNot(And(item1[2], item2[2]), diff_bit)
  IN  <<new_term, new_mask>>

\* The index pairs (i, j), i < j, of the double loop (lines 105-110) whose
\* terms are adjacent.
AdjacentPairs(items) ==
  {p \in (1..Len(items)) \X (1..Len(items)) :
     p[1] < p[2] /\ AdjacentCells(items[p[1]][1], items[p[2]][1])}

\* The position of the pair p in the order the double loop visits pairs.
LoopRank(items, p) == p[1] * (Len(items) + 1) + p[2]

\* The writes of line 116 in one pass of the double loop, each as
\* <<position in loop order, new_term, new_mask>>.
LevelWrites(items) ==
  {<<LoopRank(items, p)>> \o Combine(items[p[1]], items[p[2]]) :
     p \in AdjacentPairs(items)}

\* The dict entries for the keys first written at the loop positions ranks
\* (ascending): each key with the mask of its last write.
RECURSIVE LevelEntries(_, _)
LevelEntries(ranks, writes) ==
  IF ranks = <<>> THEN <<>>
  ELSE LET key == (CHOOSE w \in writes : w[1] = Head(ranks))[2]
           last == SetMax({w[1] : w \in {v \in writes : v[2] = key}})
           mask == (CHOOSE w \in writes : w[1] = last)[3]
       IN  <<<<key, mask>>>> \o LevelEntries(Tail(ranks), writes)

\* The next_level dict after the double loop: a key stands where its first
\* write put it and holds the mask of its last write.
NextLevel(items) ==
  LET writes == LevelWrites(items)
      keys == {w[2] : w \in writes}
      firsts == {SetMin({w[1] : w \in {v \in writes : v[2] = k}}) : k \in keys}
  IN  LevelEntries(Sorted(firsts), writes)

\* The used set after the double loop (lines 117-118).
Used(items) ==
  LET pairs == AdjacentPairs(items)
  IN  {items[p[1]][1] : p \in pairs} \cup {items[p[2]][1] : p \in pairs}

\* One pass of the while loop (lines 101-125): the next level and the
\* implicants of the current level whose term no merge used (lines 121-123),
\* in dict order.
Generation(current_level) ==
  LET used == Used(current_level)
  IN  [next_level |-> NextLevel(current_level),
       unused |-> SelectSeq(current_level, LAMBDA item : item[1] \notin used)]

\* Line 98: {minterm: minterm for minterm in minterms}
InitialLevel(minterms, ord) ==
  LET it == SetIter(minterms, ord)
  IN  [x \in 1..Len(it) |-> <<it[x], it[x]>>]

RECURSIVE PrimeLoop(_, _)
PrimeLoop(current_level, prime_implicants) ==
  IF current_level = <<>> THEN prime_implicants
  ELSE LET g == Generation(current_level)
       IN  PrimeLoop(g.next_level, prime_implicants \o g.unused)

FindPrimeImplicants(minterms, ord) ==
  IF minterms = {} THEN <<>>
  ELSE PrimeLoop(InitialLevel(minterms, ord), <<>>)

(***************************************************************************)
(* implicant_to_expr, get_covered_minterms                                 *)
(***************************************************************************)

\* Factors with the bit positions counted from the wrong end.
RECURSIVE FactorsReversed(_, _, _)
FactorsReversed(implicant, variables, i) ==
  IF i > Len(variables) THEN <<>>
  ELSE LET bit_pos == i - 1
       IN  (IF Bit(implicant[2], bit_pos) = 1 /\ Bit(implicant[1], bit_pos) = 1
            THEN <<variables[i]>> ELSE <<>>)
           \o FactorsReversed(implicant, variables, i + 1)

\* The factors list of implicant_to_expr from variable index i (1-based) on.
RECURSIVE Factors(_, _, _)
Factors(implicant, variables, i) ==
  IF i > Len(variables) THEN <<>>
  ELSE LET bit_pos == Len(variables) - i
       IN  (IF Bit(implicant[2], bit_pos) = 1 /\ Bit(implicant[1], bit_pos) = 1
            THEN <<variables[i]>> ELSE <<>>)
           \o Factors(implicant, variables, i + 1)

ImplicantToExpr(implicant, variables) ==
  LET factors == Factors(implicant, variables, 1)
  IN  IF factors = <<>> THEN <<>> ELSE <<"[">> \o factors \o <<"]">>

\* term with any combination of the don't-care bits (mask bit 0, below
\* num_vars) set.
GetCoveredMinterms(implicant, num_vars) ==
  {Or(implicant[1], d) :
     d \in {x \in 0..(Pow2(num_vars) - 1) : And(x, implicant[2]) = 0}}

(***************************************************************************)
(* essential_prime_implicant_cover                                         *)
(***************************************************************************)

\* The keys of the coverage dict: the listed implicants in order of first
\* occurrence.
RECURSIVE CoverageKeys(_, _)
CoverageKeys(prime_implicants, seen) ==
  IF prime_implicants = <<>> THEN <<>>
  ELSE IF Head(prime_implicants) \in seen
       THEN CoverageKeys(Tail(prime_implicants), seen)
       ELSE <<Head(prime_implicants)>>
            \o CoverageKeys(Tail(prime_implicants), seen \cup {Head(prime_implicants)})

\* coverage[pi]
Coverage(pi, minterms, num_vars) == GetCoveredMinterms(pi, num_vars) \cap minterms

\* [pi for pi, cov in coverage.items() if m in cov]
Covering(keys, m, minterms, num_vars) ==
  SelectSeq(keys, LAMBDA pi : m \in Coverage(pi, minterms, num_vars))

\* Whether x occurs in the list l.
InSeq(x, l) == \E i \in 1..Len(l) : l[i] = x

\* EssentialLoop with the test "covered by some implicant" in place of
\* "covered by exactly one implicant".
RECURSIVE EssentialLoopAnyCover(_, _, _, _, _, _)
EssentialLoopAnyCover(ms, keys, minterms, num_vars, essential, covered_by_essential) ==
  IF ms = <<>>
  THEN [essential |-> essential, covered_by_essential |-> covered_by_essential]
  ELSE LET covering == Covering(keys, Head(ms), minterms, num_vars)
       IN  IF Len(covering) >= 1 /\ ~InSeq(covering[1], essential)
           THEN EssentialLoopAnyCover(Tail(ms), keys, minterms, num_vars,
                                      Append(essential, covering[1]),
                                      covered_by_essential
                                        \cup Coverage(covering[1], minterms, num_vars))
           ELSE EssentialLoopAnyCover(Tail(ms), keys, minterms, num_vars,
                                      essential, covered_by_essential)

\* Lines 183-189 over the minterms still to visit (ms, in iteration order).
RECURSIVE EssentialLoop(_, _, _, _, _, _)
EssentialLoop(ms, keys, minterms, num_vars, essential, covered_by_essential) ==
  IF ms = <<>>
  THEN [essential |-> essential, covered_by_essential |-> covered_by_essential]
  ELSE LET covering == Covering(keys, Head(ms), minterms, num_vars)
       IN  IF Len(covering) = 1 /\ ~InSeq(covering[1], essential)
           THEN EssentialLoop(Tail(ms), keys, minterms, num_vars,
                              Append(essential, covering[1]),
                              covered_by_essential
                                \cup Coverage(covering[1], minterms, num_vars))
           ELSE EssentialLoop(Tail(ms), keys, minterms, num_vars,
                              essential, covered_by_essential)

\* index_of[pi]: the last index at which pi occurs in pi_list
IndexOf(pi_list, pi) == SetMax({i \in 1..Len(pi_list) : pi_list[i] = pi})

\* literal_counts[i]
LiteralCount(pi_list, i) == PopCount(pi_list[i][2])

\* Lines 207-216 over the remaining minterms still to visit.
RECURSIVE ClauseLoop(_, _, _, _, _, _)
ClauseLoop(ms, keys, pi_list, essential, minterms, num_vars) ==
  IF ms = <<>> THEN <<>>
  ELSE LET covering == Covering(keys, Head(ms), minterms, num_vars)
           idxs == {IndexOf(pi_list, covering[x]) : x \in 1..Len(covering)}
           rest == ClauseLoop(Tail(ms), keys, pi_list, essential, minterms, num_vars)
           left == idxs \ {IndexOf(pi_list, essential[x]) : x \in 1..Len(essential)}
       IN  IF idxs = {} THEN rest
           ELSE IF left # {} THEN <<left>> \o rest
           ELSE rest

\* sum(literal_counts[i] for i in p)
RECURSIVE LiteralSum(_, _)
LiteralSum(pi_list, p) ==
  IF p = {} THEN 0
  ELSE LET i == SetMin(p)
       IN  LiteralCount(pi_list, i) + LiteralSum(pi_list, p \ {i})

\* Comparison of two int tuples.
RECURSIVE TupleLess(_, _)
TupleLess(s, t) ==
  IF t = <<>> THEN FALSE
  ELSE IF s = <<>> THEN TRUE
  ELSE IF Head(s) # Head(t) THEN Head(s) < Head(t)
  ELSE TupleLess(Tail(s), Tail(t))

\* product_cost(p) = (len(p), sum of literal counts)
ProductCost(pi_list, p) == <<Cardinality(p), LiteralSum(pi_list, p)>>

\* sorted(prods, key=cost): products of equal cost are taken in the order of
\* their index tuples (the result of reduce_products does not depend on it).
RECURSIVE SortProducts(_, _)
SortProducts(pi_list, prods) ==
  IF prods = {} THEN <<>>
  ELSE LET first == CHOOSE p \in prods : \A q \in prods :
                      \/ p = q
                      \/ TupleLess(ProductCost(pi_list, p), ProductCost(pi_list, q))
                      \/ /\ ProductCost(pi_list, p) = ProductCost(pi_list, q)
                         /\ TupleLess(Sorted(p), Sorted(q))
       IN  <<first>> \o SortProducts(pi_list, prods \ {first})

\* The loop of reduce_products over the sorted products ps.
RECURSIVE Absorb(_, _)
Absorb(ps, minimal) ==
  IF ps = <<>> THEN minimal
  ELSE IF \E q \in minimal : q \subseteq Head(ps)
       THEN Absorb(Tail(ps), minimal)
       ELSE Absorb(Tail(ps), minimal \cup {Head(ps)})

ReduceProducts(pi_list, prods) == Absorb(SortProducts(pi_list, prods), {})

\* Lines 236-244: multiply the clauses into products; {} if no product is left.
RECURSIVE Multiply(_, _, _)
Multiply(pi_list, clauses, products) ==
  IF clauses = <<>> THEN products
  ELSE LET new_products == {p \cup {idx} : p \in products, idx \in Head(clauses)}
           reduced == ReduceProducts(pi_list, new_products)
       IN  IF reduced = {} THEN {} ELSE Multiply(pi_list, Tail(clauses), reduced)

\* ChooseProduct with ties broken by the largest index tuple.
ChooseProductLargest(pi_list, products) ==
  LET best_products ==
        {p \in products : \A q \in products :
           ~TupleLess(ProductCost(pi_list, q), ProductCost(pi_list, p))}
  IN  CHOOSE p \in best_products :
        \A q \in best_products : p = q \/ TupleLess(Sorted(q), Sorted(p))

\* Lines 250-254: the cheapest product, ties broken by the smallest index tuple.
ChooseProduct(pi_list, products) ==
  LET best_products ==
        {p \in products : \A q \in products :
           ~TupleLess(ProductCost(pi_list, q), ProductCost(pi_list, p))}
  IN  CHOOSE p \in best_products :
        \A q \in best_products : p = q \/ TupleLess(Sorted(p), Sorted(q))

EssentialPrimeImplicantCover(prime_implicants, minterms, num_vars, ord) ==
  IF prime_implicants = <<>> \/ minterms = {} THEN prime_implicants
  ELSE
    LET keys == CoverageKeys(prime_implicants, {})
        e == EssentialLoop(SetIter(minterms, ord), keys, minterms, num_vars, <<>>, {})
        essential == e.essential
        remaining == minterms \ e.covered_by_essential
        pi_list == prime_implicants
        clauses == ClauseLoop(SetIter(remaining, ord), keys, pi_list, essential,
                              minterms, num_vars)
        products == Multiply(pi_list, clauses, {{}})
        chosen == Sorted(ChooseProduct(pi_list, products))
    IN  IF remaining = {} THEN essential
        ELSE IF clauses = <<>> THEN essential
        ELSE IF products = {} THEN essential
        ELSE essential \o [x \in 1..Len(chosen) |-> pi_list[chosen[x]]]

(***************************************************************************)
(* minimize_karnaugh, compute_kmap                                         *)
(***************************************************************************)

\* The practical limit of line 267.
MaxKmapVars == 6

\* SortTerms that leaves the list as it is.
SortTermsUnsorted(terms) == terms

\* terms.sort() on the list of bracket groups
RECURSIVE SortTerms(_)
SortTerms(terms) ==
  IF terms = <<>> THEN <<>>
  ELSE LET x == CHOOSE i \in 1..Len(terms) :
                  \A j \in 1..Len(terms) : ~StrLess(terms[j], terms[i])
       IN  <<terms[x]>>
           \o SortTerms([j \in 1..(Len(terms) - 1) |->
                           IF j < x THEN terms[j] ELSE terms[j + 1]])

\* Lines 280-287: the non-empty groups of the cover, sorted and joined.
FormatCover(minimal_implicants, variables) ==
  LET exprs == [x \in 1..Len(minimal_implicants) |->
                  ImplicantToExpr(minimal_implicants[x], variables)]
      terms == SelectSeq(exprs, LAMBDA e : e # <<>>)
  IN  Join(SortTerms(terms))

MinimizeKarnaugh(minterms, variables, ord) ==
  IF minterms = {} THEN <<>>
  ELSE IF Len(variables) > MaxKmapVars THEN <<>>
  ELSE LET prime_implicants == FindPrimeImplicants(minterms, ord)
       IN  IF prime_implicants = <<>> THEN <<>>
           ELSE FormatCover(
                  EssentialPrimeImplicantCover(prime_implicants, minterms,
                                               Len(variables), ord),
                  variables)

\* Lines 306-310
AllVars(base_expr, reset_expr) ==
  (IF Truthy(base_expr) THEN ExtractVariables(base_expr) ELSE {})
  \cup (IF Truthy(reset_expr) THEN ExtractVariables(reset_expr) ELSE {})

\* The index (1-based) of character c in variables, 0 if absent.
IndexIn(variables, c) ==
  IF \E i \in 1..Len(variables) : variables[i] = c
  THEN CHOOSE i \in 1..Len(variables) : variables[i] = c
  ELSE 0

\* ShiftReset that does not skip P when it counts the reset bit positions.
RECURSIVE ShiftResetNoSkip(_, _, _, _)
ShiftResetNoSkip(variables, reset_term, i, reset_pos) ==
  IF i > Len(variables) THEN 0
  ELSE IF variables[i] # "P"
       THEN LET bit_pos == Len(variables) - i
                others == Len(SelectSeq(variables, LAMBDA v : v # "P"))
                reset_bit_pos == others - 1 - (i - 1)
            IN  Or(IF reset_bit_pos >= 0 /\ Bit(reset_term, reset_bit_pos) = 1
                   THEN Pow2(bit_pos) ELSE 0,
                   ShiftResetNoSkip(variables, reset_term, i + 1, reset_pos + 1))
       ELSE ShiftResetNoSkip(variables, reset_term, i + 1, reset_pos)

\* Lines 337-345: reset_term, a minterm over the variables other than P,
\* moved to the bit positions those variables have in variables.
RECURSIVE ShiftReset(_, _, _, _)
ShiftReset(variables, reset_term, i, reset_pos) ==
  IF i > Len(variables) THEN 0
  ELSE IF variables[i] # "P"
       THEN LET bit_pos == Len(variables) - i
                others == Len(SelectSeq(variables, LAMBDA v : v # "P"))
                reset_bit_pos == others - 1 - reset_pos
            IN  Or(IF Bit(reset_term, reset_bit_pos) = 1 THEN Pow2(bit_pos) ELSE 0,
                   ShiftReset(variables, reset_term, i + 1, reset_pos + 1))
       ELSE ShiftReset(variables, reset_term, i + 1, reset_pos)

\* ExpandMinterms that combines the minterm itself, its P bit not cleared,
\* with the shifted reset term.
ExpandMintermsKeepP(base_minterms, reset_minterms, variables) ==
  LET p_index == IndexIn(variables, "P")
      p_bit == Pow2(Len(variables) - p_index)
  IN  IF p_index = 0 THEN base_minterms
      ELSE {m \in base_minterms : And(m, p_bit) = 0}
           \cup {Or(m, shifted_reset) :
                   m \in {b \in base_minterms : And(b, p_bit) # 0},
                   shifted_reset \in {ShiftReset(variables, r, 1, 0) :
                                        r \in reset_minterms}}

\* Lines 326-350: the expanded minterm set.
ExpandMinterms(base_minterms, reset_minterms, variables) ==
  LET p_index == IndexIn(variables, "P")
      p_bit == Pow2(Len(variables) - p_index)
  IN  IF p_index = 0 THEN base_minterms
      ELSE {m \in base_minterms : And(m, p_bit) = 0}
           \cup {Or(AndNot(m, p_bit), shifted_reset) :
                   m \in {b \in base_minterms : And(b, p_bit) # 0},
                   shifted_reset \in {ShiftReset(variables, r, 1, 0) :
                                        r \in reset_minterms}}

\* HandedMinterms with the test "reset_expr is not None" in place of the
\* truth value of reset_expr.
HandedMintermsNotNone(base_expr, reset_expr, variables) ==
  LET base_minterms == ParseExprToMinterms(base_expr, variables)
  IN  IF InSeq("P", variables) /\ reset_expr # None
      THEN ExpandMinterms(base_minterms,
             ParseExprToMinterms(reset_expr, SelectSeq(variables, LAMBDA v : v # "P")),
             variables)
      ELSE base_minterms

\* Lines 318-352: the minterm set compute_kmap hands to minimize_karnaugh.
HandedMinterms(base_expr, reset_expr, variables) ==
  LET base_minterms == ParseExprToMinterms(base_expr, variables)
  IN  IF InSeq("P", variables) /\ Truthy(reset_expr)
      THEN ExpandMinterms(base_minterms,
             ParseExprToMinterms(reset_expr, SelectSeq(variables, LAMBDA v : v # "P")),
             variables)
      ELSE base_minterms

ComputeKmap(base_expr, reset_expr, ord) ==
  LET all_vars == AllVars(base_expr, reset_expr)
      variables == SortedChars(all_vars)
  IN  IF all_vars = {} THEN <<>>
      ELSE MinimizeKarnaugh(HandedMinterms(base_expr, reset_expr, variables),
                            variables, ord)

(***************************************************************************)
(* Inputs                                                                  *)
(***************************************************************************)

\* The bracket group "[" letters "]"
Group(letters) == <<"[">> \o letters \o <<"]">>

\* At most this many bracket groups in a primary expression.
MaxGroups == 2

\* At most this many rounds: the first call and calls on its own output.
MaxRounds == 2

\* At most this many listed implicants when the cover solver is run alone.
MaxImplicants == 3

PrimaryGroups ==
  { Group(<<"A">>), Group(<<"A", "B">>), Group(<<"A", "C">>),
    Group(<<"P">>), Group(<<"A", "P">>), Group(<<"D", "E", "F", "G">>) }

\* Concatenations of at most n groups of the set groups.
RECURSIVE GroupStrings(_, _)
GroupStrings(groups, n) ==
  IF n = 0 THEN {<<>>}
  ELSE LET shorter == GroupStrings(groups, n - 1)
       IN  shorter \cup {g \o s : g \in groups, s \in shorter}

\* Absent, placeholder, padded, malformed and unsorted primaries, and
\* primaries over 7 and 8 symbols.
OddPrimaries ==
  { None,
    Group(<<"A", "B", "C">>) \o Group(<<"D", "E", "F", "G">>),
    Group(<<"A", "B", "C", "P">>) \o Group(<<"D", "E", "F", "G">>),
    <<"-">>,
    <<" ", "-", " ">>,
    <<" ">>,
    <<"[", "]", "x">>,
    <<"[", "A", " ", "B", "]">>,
    <<"[", " ", "B", "A", " ", "]", "x", "[", "A", "A", "]">>,
    <<"[", "[", "C", "]", "-", "[", "B", "]", "]">> }

PrimaryExprs == GroupStrings(PrimaryGroups, MaxGroups) \cup OddPrimaries

SecondaryExprs ==
  { None,
    <<>>,
    <<"-">>,
    Group(<<"Q">>),
    Group(<<"P">>),
    Group(<<"A", "B", "C">>),
    Group(<<"Q">>) \o Group(<<"A", "B">>) }

(***************************************************************************)
(* One call of compute_kmap as a state machine                             *)
(***************************************************************************)

VARIABLES
  base_expr,          \* compute_kmap's first argument
  reset_expr,         \* compute_kmap's second argument
  ord,                \* the iteration order of sets of ints in this run
  round,              \* 1 for the first call, 2 for the call on its output
  pc,                 \* position in the call
  variables,          \* compute_kmap: variables
  base_minterms,      \* the minterm set handed to minimize_karnaugh
  current_level,      \* find_prime_implicants: current_level
  prime_implicants,   \* find_prime_implicants: prime_implicants
  minimal_implicants, \* minimize_karnaugh: minimal_implicants
  result              \* the returned string

vars == <<base_expr, reset_expr, ord, round, pc, variables, base_minterms,
          current_level, prime_implicants, minimal_implicants, result>>

Init ==
  /\ base_expr \in PrimaryExprs
  /\ reset_expr \in SecondaryExprs
  /\ ord \in Orders
  /\ round = 1
  /\ pc = "start"
  /\ variables = <<>>
  /\ base_minterms = {}
  /\ current_level = <<>>
  /\ prime_implicants = <<>>
  /\ minimal_implicants = <<>>
  /\ result = <<>>

\* compute_kmap lines 306-315
BuildUniverse ==
  /\ pc = "start"
  /\ LET all_vars == AllVars(base_expr, reset_expr)
     IN  IF all_vars = {}
         THEN /\ result' = <<>>
              /\ pc' = "done"
              /\ UNCHANGED variables
         ELSE /\ variables' = SortedChars(all_vars)
              /\ pc' = "minterms"
              /\ UNCHANGED result
  /\ UNCHANGED <<base_expr, reset_expr, ord, round, base_minterms, current_level,
                 prime_implicants, minimal_implicants>>

\* compute_kmap lines 318-352
BuildMinterms ==
  /\ pc = "minterms"
  /\ base_minterms' = HandedMinterms(base_expr, reset_expr, variables)
  /\ pc' = "minimize"
  /\ UNCHANGED <<base_expr, reset_expr, ord, round, variables, current_level,
                 prime_implicants, minimal_implicants, result>>

\* EnterMinimize with the limit test ">=" in place of ">".
EnterMinimizeOffByOne ==
  /\ pc = "minimize"
  /\ IF base_minterms = {} \/ Len(variables) >= MaxKmapVars
     THEN /\ result' = <<>>
          /\ pc' = "done"
          /\ UNCHANGED <<current_level, prime_implicants>>
     ELSE /\ current_level' = InitialLevel(base_minterms, ord)
          /\ prime_implicants' = <<>>
          /\ pc' = "search"
          /\ UNCHANGED result
  /\ UNCHANGED <<base_expr, reset_expr, ord, round, variables, base_minterms,
                 minimal_implicants>>

\* EnterMinimize that returns the placeholder "-" for an empty minterm set.
EnterMinimizePlaceholder ==
  /\ pc = "minimize"
  /\ IF base_minterms = {} \/ Len(variables) > MaxKmapVars
     THEN /\ result' = (IF base_minterms = {} THEN <<"-">> ELSE <<>>)
          /\ pc' = "done"
          /\ UNCHANGED <<current_level, prime_implicants>>
     ELSE /\ current_level' = InitialLevel(base_minterms, ord)
          /\ prime_implicants' = <<>>
          /\ pc' = "search"
          /\ UNCHANGED result
  /\ UNCHANGED <<base_expr, reset_expr, ord, round, variables, base_minterms,
                 minimal_implicants>>

\* minimize_karnaugh lines 263-271 and find_prime_implicants lines 93-98
EnterMinimize ==
  /\ pc = "minimize"
  /\ IF base_minterms = {} \/ Len(variables) > MaxKmapVars
     THEN /\ result' = <<>>
          /\ pc' = "done"
          /\ UNCHANGED <<current_level, prime_implicants>>
     ELSE /\ current_level' = InitialLevel(base_minterms, ord)
          /\ prime_implicants' = <<>>
          /\ pc' = "search"
          /\ UNCHANGED result
  /\ UNCHANGED <<base_expr, reset_expr, ord, round, variables, base_minterms,
                 minimal_implicants>>

\* find_prime_implicants lines 100-125: one pass of the while loop
MergeGeneration ==
  /\ pc = "search"
  /\ current_level # <<>>
  /\ LET g == Generation(current_level)
     IN  /\ current_level' = g.next_level
         /\ prime_implicants' = prime_implicants \o g.unused
  /\ UNCHANGED <<base_expr, reset_expr, ord, round, pc, variables, base_minterms,
                 minimal_implicants, result>>

\* find_prime_implicants line 127, minimize_karnaugh lines 273-277
SelectCover ==
  /\ pc = "search"
  /\ current_level = <<>>
  /\ IF prime_implicants = <<>>
     THEN /\ result' = <<>>
          /\ pc' = "done"
          /\ UNCHANGED minimal_implicants
     ELSE /\ minimal_implicants' =
                EssentialPrimeImplicantCover(prime_implicants, base_minterms,
                                             Len(variables), ord)
          /\ pc' = "format"
          /\ UNCHANGED result
  /\ UNCHANGED <<base_expr, reset_expr, ord, round, variables, base_minterms,
                 current_level, prime_implicants>>

\* minimize_karnaugh lines 279-287
FormatResult ==
  /\ pc = "format"
  /\ result' = FormatCover(minimal_implicants, variables)
  /\ pc' = "done"
  /\ UNCHANGED <<base_expr, reset_expr, ord, round, variables, base_minterms,
                 current_level, prime_implicants, minimal_implicants>>

\* The caller minimizes the returned string again, with no secondary.
Reminimize ==
  /\ pc = "done"
  /\ round < MaxRounds
  /\ reset_expr = None
  /\ base_expr' = result
  /\ round' = round + 1
  /\ pc' = "start"
  /\ variables' = <<>>
  /\ base_minterms' = {}
  /\ current_level' = <<>>
  /\ prime_implicants' = <<>>
  /\ minimal_implicants' = <<>>
  /\ result' = <<>>
  /\ UNCHANGED <<reset_expr, ord>>

Next ==
  \/ BuildUniverse
  \/ BuildMinterms
  \/ EnterMinimize
  \/ MergeGeneration
  \/ SelectCover
  \/ FormatResult
  \/ Reminimize

Spec == Init /\ [][Next]_vars

(***************************************************************************)
(* The exact cover solver run alone, on any implicant list and target      *)
(***************************************************************************)

\* The universe of the stand-alone runs of the cover solver.
CoverVariables == <<"A", "B">>

\* Every pair <<term, mask>> over CoverVariables (a term may have bits
\* outside its mask).
Cubes ==
  (0..(Pow2(Len(CoverVariables)) - 1)) \X (0..(Pow2(Len(CoverVariables)) - 1))

CubeCode(c) == c[1] * Pow2(Len(CoverVariables)) + c[2]

\* The pairs of the set S as a list, in the order of their codes.
CubeList(S) ==
  LET codes == Sorted({CubeCode(c) : c \in S})
  IN  [x \in 1..Len(codes) |-> CHOOSE c \in S : CubeCode(c) = codes[x]]

ImplicantLists ==
  {CubeList(S) : S \in {T \in SUBSET Cubes : T # {} /\ Cardinality(T) <= MaxImplicants}}

InitCover ==
  /\ base_expr = None
  /\ reset_expr = None
  /\ ord \in Orders
  /\ round = MaxRounds
  /\ pc = "search"
  /\ variables = CoverVariables
  /\ base_minterms \in SUBSET (0..(Pow2(Len(CoverVariables)) - 1)) \ {{}}
  /\ current_level = <<>>
  /\ prime_implicants \in ImplicantLists
  /\ minimal_implicants = <<>>
  /\ result = <<>>

NextCover ==
  \/ SelectCover
  \/ FormatResult

SpecCover == InitCover /\ [][NextCover]_vars

(***************************************************************************)
(* minimize_karnaugh run alone, on any minterm set                         *)
(***************************************************************************)

\* The universe of the stand-alone runs of minimize_karnaugh.
FinderVariables == <<"A", "B", "C", "D">>

\* The largest minterm set of the stand-alone runs.
MaxMinterms == 4

\* The non-empty minterm sets over FinderVariables of at most MaxMinterms
\* minterms.
MintermSets ==
  {M \in SUBSET (0..(Pow2(Len(FinderVariables)) - 1)) :
     M # {} /\ Cardinality(M) <= MaxMinterms}

\* minimize_karnaugh(minterms, variables) at the call of line 271, after
\* line 98 of find_prime_implicants.
InitFinder ==
  /\ base_expr = None
  /\ reset_expr = None
  /\ ord \in Orders
  /\ round = MaxRounds
  /\ pc = "search"
  /\ variables = FinderVariables
  /\ base_minterms \in MintermSets
  /\ current_level = InitialLevel(base_minterms, ord)
  /\ prime_implicants = <<>>
  /\ minimal_implicants = <<>>
  /\ result = <<>>

NextFinder ==
  \/ MergeGeneration
  \/ SelectCover
  \/ FormatResult

SpecFinder == InitFinder /\ [][NextFinder]_vars

(***************************************************************************)
(* Properties of the exact cover solver (checked under SpecCover)          *)
(***************************************************************************)

\* The listed implicants, as a set.
Listed == {prime_implicants[i] : i \in 1..Len(prime_implicants)}

\* The implicants of the returned cover, as a set.
Selected == {minimal_implicants[i] : i \in 1..Len(minimal_implicants)}

\* Whether the implicants of S together cover every target minterm.
CoversTarget(S) ==
  \A m \in base_minterms :
    \E c \in S : m \in GetCoveredMinterms(c, Len(variables))

\* The total number of relevant mask bits of the implicants of S.
RECURSIVE MaskBits(_)
MaskBits(S) ==
  IF S = {} THEN 0
  ELSE LET c == CHOOSE x \in S : TRUE
       IN  PopCount(c[2]) + MaskBits(S \ {c})

\* Whether the collection S is cheaper than the collection T: fewer
\* implicants, or as many with fewer relevant mask bits.
Cheaper(S, T) ==
  \/ Cardinality(S) < Cardinality(T)
  \/ Cardinality(S) = Cardinality(T) /\ MaskBits(S) < MaskBits(T)

\* The solver has returned.
CoverReturned == pc \in {"format", "done"}

\* C5: when the target is non-empty and every target minterm is covered by a
\* listed implicant, the returned cover is a sub-collection of the listed
\* implicants, covers every target minterm, and no covering sub-collection
\* of the list has fewer implicants or as many with fewer relevant mask bits.
C5_MinimalCover ==
  (CoverReturned /\ base_minterms # {} /\ CoversTarget(Listed))
    => /\ Selected \subseteq Listed
       /\ Cardinality(Selected) = Len(minimal_implicants)
       /\ CoversTarget(Selected)
       /\ \A S \in SUBSET Listed : CoversTarget(S) => ~Cheaper(S, Selected)

\* A returned cover that the solver had to choose: no target minterm has a
\* single covering implicant, and part of the list was left out.
C5_Witness ==
  /\ pc = "format"
  /\ base_expr = None
  /\ CoversTarget(Listed)
  /\ \A m \in base_minterms :
       Cardinality({c \in Listed : m \in GetCoveredMinterms(c, Len(variables))}) > 1
  /\ Selected # {}
  /\ Cardinality(Selected) < Cardinality(Listed)

\* Some target minterm is covered by no listed implicant.
UncoverableMinterm ==
  /\ prime_implicants # <<>>
  /\ \E m \in base_minterms :
       \A c \in Listed : m \notin GetCoveredMinterms(c, Len(variables))

\* C6: when a target minterm is covered by no listed implicant the solver
\* does not return normally with a cover that leaves the minterm uncovered:
\* the call ends in a failure distinguishable from a returned cover.
C6_UncoverableSignalled ==
  UncoverableMinterm => ~CoverReturned

\* The other iteration order of the target minterms.
OtherOrd == IF ord = "asc" THEN "desc" ELSE "asc"

\* The elements of the list l, as a set.
SeqSet(l) == {l[i] : i \in 1..Len(l)}

\* The target minterms that some listed implicant covers.
Coverable ==
  {m \in base_minterms :
     \E c \in Listed : m \in GetCoveredMinterms(c, Len(variables))}

\* No target minterm is covered by exactly one listed implicant.
NoEssential ==
  \A m \in base_minterms :
    Cardinality({c \in Listed : m \in GetCoveredMinterms(c, Len(variables))}) # 1

\* The list indices that stand for the listed implicants (the last index of
\* each).
ListIndices ==
  {i \in 1..Len(prime_implicants) :
     \A j \in (i + 1)..Len(prime_implicants) : prime_implicants[j] # prime_implicants[i]}

\* Whether the implicants at the indices S cover every coverable target
\* minterm.
HitsAll(S) ==
  \A m \in Coverable :
    \E i \in S : m \in GetCoveredMinterms(prime_implicants[i], Len(variables))

\* The index sets that cover, of minimum cost (fewest implicants, then
\* fewest relevant mask bits).
BestIndexSets ==
  LET covers == {S \in SUBSET ListIndices : HitsAll(S)}
      at(S) == {prime_implicants[i] : i \in S}
  IN  {S \in covers : \A T \in covers : ~Cheaper(at(T), at(S))}

\* The best index set whose sorted index tuple is lexicographically smallest.
SmallestBest ==
  CHOOSE S \in BestIndexSets :
    \A T \in BestIndexSets : T = S \/ TupleLess(Sorted(S), Sorted(T))

\* C11: the set of implicants returned does not depend on the order in
\* which the target minterms are visited, and when no implicant is essential
\* the returned list is the minimum-cost product, among equal-cost products
\* the one with the lexicographically smallest sorted index tuple, in index
\* order.
C11_OrderIndependent ==
  (pc = "format" /\ base_expr = None)
    => /\ Selected =
            SeqSet(EssentialPrimeImplicantCover(prime_implicants, base_minterms,
                                                Len(variables), OtherOrd))
       /\ NoEssential
            => LET chosen == Sorted(SmallestBest)
               IN  /\ Len(minimal_implicants) = Len(chosen)
                   /\ \A x \in 1..Len(chosen) :
                        minimal_implicants[x] = prime_implicants[chosen[x]]

\* A cover chosen by multiplication over several target minterms: no
\* implicant is essential, two target minterms have different sets of
\* covering implicants, and the chosen product is not the only cover that
\* has no redundant implicant.
C11_Witness ==
  /\ pc = "format"
  /\ base_expr = None
  /\ NoEssential
  /\ Coverable = base_minterms
  /\ \E m1, m2 \in base_minterms :
        {c \in Listed : m1 \in GetCoveredMinterms(c, Len(variables))}
          # {c \in Listed : m2 \in GetCoveredMinterms(c, Len(variables))}
  /\ \E S \in SUBSET ListIndices :
        /\ HitsAll(S)
        /\ \A i \in S : ~HitsAll(S \ {i})
        /\ {prime_implicants[i] : i \in S} # Selected
  /\ Selected # {}

(***************************************************************************)
(* Properties of compute_kmap (checked under Spec)                         *)
(***************************************************************************)

\* The terms of an expression string: the letter sets of its bracket groups.
TermsOf(expr) ==
  IF ~Truthy(expr) THEN {}
  ELSE {CharSet(FindAll(expr)[i]) : i \in 1..Len(FindAll(expr))}

\* The terms of a set that contain no other term of the set.
MinimalTerms(terms) == {t \in terms : ~\E u \in terms : u # t /\ u \subseteq t}

\* The call has returned and had no secondary expression.
ReturnedNoSecondary == pc = "done" /\ ~Truthy(reset_expr)

\* The returned string and the primary expression denote the same minterm
\* set over the universe of the call.
SameMinterms ==
  ParseExprToMinterms(result, variables) = ParseExprToMinterms(base_expr, variables)

\* C1 as stated: for every input string, with no secondary expression, the
\* returned canonical string denotes the same minterm set as the input over
\* the input's universe.
C1_SameMintermSet == ReturnedNoSecondary => SameMinterms

\* C1 amended: the same, for inputs whose universe has at most 6 symbols.
C1_SameMintermSetBounded ==
  (ReturnedNoSecondary /\ Len(variables) <= 6) => SameMinterms

\* A call that absorbed a term: the output differs from the input and is not
\* empty.
C1_Witness ==
  /\ ReturnedNoSecondary
  /\ Len(variables) >= 2
  /\ Len(variables) <= 6
  /\ result # <<>>
  /\ result # base_expr
  /\ SameMinterms

\* C2: with no secondary expression and a universe of at most 6 symbols the
\* output consists of exactly one bracket group per containment-minimal term
\* of the input and nothing else; [A][AB] gives [A], [AB][AC] gives [AB][AC].
C2_MinimalTermsOnly ==
  (ReturnedNoSecondary /\ Len(variables) <= 6)
    => LET groups == FindAll(result)
       IN  /\ {CharSet(groups[i]) : i \in 1..Len(groups)}
                = MinimalTerms(TermsOf(base_expr))
           /\ Len(groups) = Cardinality(MinimalTerms(TermsOf(base_expr)))
           /\ result = Join([i \in 1..Len(groups) |-> Group(groups[i])])
           /\ base_expr = Group(<<"A">>) \o Group(<<"A", "B">>)
                => result = Group(<<"A">>)
           /\ base_expr = Group(<<"A", "B">>) \o Group(<<"A", "C">>)
                => result = Group(<<"A", "B">>) \o Group(<<"A", "C">>)

\* The absorption scenario has run: [A][AB] returned [A].
C2_Witness ==
  /\ ReturnedNoSecondary
  /\ base_expr = Group(<<"A">>) \o Group(<<"A", "B">>)
  /\ result = Group(<<"A">>)

\* Substitution applies: P is in the universe and a secondary expression
\* is supplied.
SubstitutionApplies == InSeq("P", variables) /\ Truthy(reset_expr)

\* The variables other than P, in order.
NonPivot == SelectSeq(variables, LAMBDA v : v # "P")

\* The bit of minterm m (over variables) at the position of variable v.
BitOf(m, v) == Bit(m, Len(variables) - IndexIn(variables, v))

\* Secondary minterm r (over the non-P variables np) mapped onto the positions
\* that those variables have in vs, from the k-th non-P variable on.
RECURSIVE Mapped(_, _, _, _)
Mapped(r, vs, np, k) ==
  IF k > Len(np) THEN 0
  ELSE Bit(r, Len(np) - k) * Pow2(Len(vs) - IndexIn(vs, np[k]))
       + Mapped(r, vs, np, k + 1)

\* C3: when substitution applies, the minterm set handed to minimization is
\* the primary minterms with P bit 0 together with, for every primary minterm
\* with P bit 1 and every secondary minterm over the universe without P, the
\* minterm with its P bit cleared combined with the mapped secondary minterm;
\* no handed minterm has its P bit set; and primary [P] with secondary [Q]
\* returns [Q].
C3_SubstitutedMinterms ==
  /\ (pc = "minimize" /\ SubstitutionApplies)
       => LET vs == variables
              np == NonPivot
              p_bit == Pow2(Len(vs) - IndexIn(vs, "P"))
              primary == ParseExprToMinterms(base_expr, vs)
              cleared == {m - p_bit : m \in {b \in primary : Bit(b, Len(vs) - IndexIn(vs, "P")) = 1}}
              mapped == {Mapped(r, vs, np, 1) : r \in ParseExprToMinterms(reset_expr, np)}
          IN  /\ base_minterms =
                   {m \in primary : Bit(m, Len(vs) - IndexIn(vs, "P")) = 0}
                   \cup {Or(c, s) : c \in cleared, s \in mapped}
              /\ \A m \in base_minterms : And(m, p_bit) = 0
  /\ (pc = "done" /\ base_expr = Group(<<"P">>) /\ reset_expr = Group(<<"Q">>))
       => result = Group(<<"Q">>)

\* A substitution that replaced minterms: the primary has minterms with P
\* set and the secondary has minterms, with a variable before and after P.
C3_Witness ==
  /\ pc = "minimize"
  /\ SubstitutionApplies
  /\ IndexIn(variables, "P") > 1
  /\ IndexIn(variables, "P") < Len(variables)
  /\ \E m \in ParseExprToMinterms(base_expr, variables) : BitOf(m, "P") = 1
  /\ ParseExprToMinterms(reset_expr, NonPivot) # {}
  /\ base_minterms # {}

\* C4: minimizing the output of a minimization with no secondary expression
\* returns that output unchanged, character for character.
C4_Idempotent ==
  (pc = "done" /\ round > 1) => result = base_expr

\* The second call has returned a non-empty string for a first input that
\* was not canonical.
C4_Witness ==
  /\ pc = "done"
  /\ round = 2
  /\ Len(result) > 3
  /\ result = base_expr

\* C7: with more than 6 symbols in the universe the call returns the empty
\* string and the prime implicant search is never started; with at most 6
\* symbols and a non-empty minterm set the search runs and the call returns
\* a non-empty string.
C7_UniverseBound ==
  /\ Len(variables) > 6
       => /\ pc \in {"minterms", "minimize", "done"}
          /\ current_level = <<>>
          /\ prime_implicants = <<>>
          /\ minimal_implicants = <<>>
          /\ result = <<>>
  /\ (pc = "done" /\ Len(variables) <= 6 /\ base_minterms # {})
       => /\ prime_implicants # <<>>
          /\ minimal_implicants # <<>>
          /\ result # <<>>

\* A call over 7 or more symbols with a non-empty minterm set has returned.
C7_Witness ==
  /\ pc = "done"
  /\ Len(variables) > 6
  /\ base_minterms # {}
  /\ result = <<>>

\* The primary expression is absent, empty or "-".
NoPrimary == base_expr \in {None, <<>>, <<"-">>}

\* C8: the call returns the empty string whenever the primary expression is
\* absent, empty or "-", whatever the secondary expression, and whenever the
\* universe built from both expressions is empty.
C8_EmptyOutput ==
  (pc = "done" /\ (NoPrimary \/ AllVars(base_expr, reset_expr) = {}))
    => result = <<>>

\* A call with primary "-" and a secondary expression that has terms has
\* returned.
C8_Witness ==
  /\ pc = "done"
  /\ base_expr = <<"-">>
  /\ variables # <<>>
  /\ result = <<>>

\* No secondary expression is supplied, or P occurs in neither expression.
SubstitutionSkipped ==
  ~Truthy(reset_expr) \/ "P" \notin AllVars(base_expr, reset_expr)

\* C9 as stated: when substitution is skipped the call returns the string
\* that the call with the same primary and no secondary returns.
C9_SkippedSameAsNone ==
  (pc = "done" /\ SubstitutionSkipped)
    => result = ComputeKmap(base_expr, None, ord)

\* C9 amended: the same, when the universe built from both expressions has
\* at most 6 symbols.
C9_SkippedSameAsNoneBounded ==
  (pc = "done" /\ SubstitutionSkipped /\ Len(variables) <= 6)
    => result = ComputeKmap(base_expr, None, ord)

\* A call with a secondary expression that adds symbols but not P has
\* returned a non-empty string.
C9_Witness ==
  /\ pc = "done"
  /\ Truthy(reset_expr)
  /\ "P" \notin AllVars(base_expr, reset_expr)
  /\ ExtractVariables(reset_expr) \ ExtractVariables(base_expr) # {}
  /\ result # <<>>
  /\ result = ComputeKmap(base_expr, None, ord)

\* C10: the secondary expressions "" and "-" are interchangeable: the call
\* with secondary "-" returns the string that the call with the same primary
\* and secondary "" returns.
C10_DashSameAsEmpty ==
  (pc = "done" /\ reset_expr = <<"-">>)
    => result = ComputeKmap(base_expr, <<>>, ord)

(***************************************************************************)
(* Properties of the parser (checked under Spec)                           *)
(***************************************************************************)

\* The letter sets of the bracket groups of expr whose content is uppercase
\* letters, at least one, interspersed with whitespace.
SpacedGroups(expr) ==
  IF ~Truthy(expr) THEN {}
  ELSE {{expr[k] : k \in {x \in (p[1] + 1)..(p[2] - 1) : expr[x] \in UpperLetters}} :
          p \in {q \in (1..Len(expr)) \X (1..Len(expr)) :
                   /\ q[1] < q[2]
                   /\ expr[q[1]] = "["
                   /\ expr[q[2]] = "]"
                   /\ \A x \in (q[1] + 1)..(q[2] - 1) :
                        expr[x] \in UpperLetters \/ expr[x] = " "
                   /\ \E x \in (q[1] + 1)..(q[2] - 1) : expr[x] \in UpperLetters}}

\* The minterm over variables in which exactly the letters of g are 1.
RECURSIVE MintermOf(_, _)
MintermOf(g, vs) ==
  IF vs = <<>> THEN 0
  ELSE (IF Head(vs) \in g THEN Pow2(Len(vs) - 1) ELSE 0) + MintermOf(g, Tail(vs))

\* C12: a bracket group whose letters are interspersed with whitespace is
\* one term with exactly those letters: its letters are in the universe, and
\* with no secondary expression the minterm in which exactly its letters are
\* 1 is among the primary minterms.
C12_SpacedGroupRecognized ==
  \A g \in SpacedGroups(base_expr) :
    /\ pc # "start" => g \subseteq SeqSet(variables)
    /\ (pc = "minimize" /\ reset_expr = None)
         => MintermOf(g, variables) \in base_minterms

(***************************************************************************)
(* Properties of find_prime_implicants (checked under Spec)                *)
(***************************************************************************)

\* The implicants that the generation just run appended to the result.
Emitted(before, after) ==
  {after[x] : x \in (Len(before) + 1)..Len(after)}

\* The merge condition of the claim: the same relevance mask, and value bits
\* that differ in exactly one bit position, relevant in both.
Mergeable(c, d) ==
  /\ c[2] = d[2]
  /\ PopCount(Xor(c[1], d[1])) = 1
  /\ And(Xor(c[1], d[1]), c[2]) # 0
  /\ And(Xor(c[1], d[1]), d[2]) # 0

\* C13: in a generation, an implicant is consumed by a merge only with an
\* implicant of the same relevance mask whose value bits differ from its own
\* in exactly one bit position that is relevant in both, and every such pair
\* is merged into the implicant with the common value bits and the mask
\* without that bit.
C13_MergeCondition ==
  [][(pc = "search" /\ current_level # <<>>)
       => /\ \A c \in SeqSet(current_level) :
               c \notin Emitted(prime_implicants, prime_implicants')
                 => \E d \in SeqSet(current_level) : Mergeable(c, d)
          /\ \A c, d \in SeqSet(current_level) :
               Mergeable(c, d)
                 => <<And(c[1], d[1]), AndNot(c[2], Xor(c[1], d[1]))>>
                      \in SeqSet(current_level')]_vars

\* C14: every implicant that find_prime_implicants has returned for the
\* minterm set handed to it is contained in that set: all the minterms it
\* covers over the whole universe belong to the set.
C14_ImplicantsContained ==
  pc = "format"
    => \A c \in Listed : GetCoveredMinterms(c, Len(variables)) \subseteq base_minterms

\* C15: every minterm of the set handed to find_prime_implicants is covered
\* by at least one of the implicants it has returned, so no minterm reaches
\* the cover solver without a covering implicant.
C15_FinderCovers ==
  pc = "format" => (CoversTarget(Listed) /\ ~UncoverableMinterm)

\* The finder has returned for a set of several minterms in which merges
\* happened and which is not closed under setting further bits.
C15_Witness ==
  /\ pc = "format"
  /\ Cardinality(base_minterms) >= 3
  /\ Len(prime_implicants) < Cardinality(base_minterms)
  /\ \E m \in base_minterms :
        \E x \in 0..(Pow2(Len(variables)) - 1) :
          And(x, m) = m /\ x \notin base_minterms

\* The letters of the variables at the relevant mask bits of implicant c.
RelevantLetters(c) ==
  {variables[i] : i \in {x \in 1..Len(variables) : Bit(c[2], Len(variables) - x) = 1}}

\* C16: no implicant of a cover that the pipeline formats has a bit that is
\* relevant with required value 0, and the group formatted for it names
\* exactly the symbols at its relevant bits.
C16_NoRelevantZero ==
  (pc = "format" /\ base_expr # None)
    => \A c \in Selected :
         /\ AndNot(c[2], c[1]) = 0
         /\ CharSet(Factors(c, variables, 1)) = RelevantLetters(c)

\* A cover of two implicants with don't-care positions is about to be
\* formatted after a substitution.
C16_Witness ==
  /\ pc = "format"
  /\ base_expr # None
  /\ SubstitutionApplies
  /\ Cardinality(Selected) >= 2
  /\ \A c \in Selected : c[2] # Pow2(Len(variables)) - 1

\* C17: every implicant of the current generation and every implicant
\* emitted so far has no value bit outside its relevance mask.
C17_ValueWithinMask ==
  \A c \in SeqSet(current_level) \cup SeqSet(prime_implicants) :
    AndNot(c[1], c[2]) = 0

\* The second generation holds an entry whose key two merges of the first
\* generation wrote.
C17_Witness ==
  /\ pc = "search"
  /\ current_level # <<>>
  /\ current_level = NextLevel(InitialLevel(base_minterms, ord))
  /\ \E v, w \in LevelWrites(InitialLevel(base_minterms, ord)) :
        v[2] = w[2] /\ v[1] # w[1]

\* The keys of a generation.
Keys(level) == {level[i][1] : i \in 1..Len(level)}

\* The implicants of a generation that no merge consumes: those whose term
\* differs in exactly one bit from no other term of the generation.
Unconsumed(level) ==
  {c \in SeqSet(level) :
     \A d \in SeqSet(level) : PopCount(Xor(c[1], d[1])) # 1}

\* C18: every pass of the generation loop leaves a key set that is a strict
\* subset of the one it started with (so the passes are at most as many as
\* the minterms) and appends exactly the implicants no merge consumed, each
\* once and none of them emitted before; a pass in which no merge occurs
\* leaves no next generation; and with no generation left the finder
\* returns the list unchanged.
C18_Terminates ==
  [][pc = "search"
         => IF current_level # <<>>
            THEN /\ Keys(current_level') \subseteq Keys(current_level)
                 /\ Keys(current_level') # Keys(current_level)
                 /\ Emitted(prime_implicants, prime_implicants')
                      = Unconsumed(current_level)
                 /\ Len(prime_implicants')
                      = Len(prime_implicants) + Cardinality(Unconsumed(current_level))
                 /\ Unconsumed(current_level) \cap SeqSet(prime_implicants) = {}
                 /\ Unconsumed(current_level) = SeqSet(current_level)
                      => current_level' = <<>>
                 /\ pc' = "search"
            ELSE /\ pc' = "format"
                 /\ prime_implicants' = prime_implicants]_vars

\* The finder has returned after merges, with several implicants emitted.
C18_Witness ==
  /\ pc = "format"
  /\ Cardinality(base_minterms) >= 3
  /\ Len(prime_implicants) >= 2
  /\ Len(prime_implicants) < Cardinality(base_minterms)

(***************************************************************************)
(* Properties of minimize_karnaugh (checked under SpecFinder)              *)
(***************************************************************************)

\* The listed implicants that are the only cover of some target minterm.
EssentialSet ==
  {c \in Listed :
     \E m \in base_minterms :
       {d \in Listed : m \in GetCoveredMinterms(d, Len(variables))} = {c}}

\* C19: on the implicants that the finder returned for the minterm set, the
\* essential implicants cover every minterm of the set, and the cover
\* returned consists of the essential implicants and nothing else: the
\* solver returns with nothing remaining and multiplies no clauses.
C19_EssentialsSuffice ==
  pc = "format"
    => /\ CoversTarget(EssentialSet)
       /\ Selected = EssentialSet
       /\ Len(minimal_implicants) = Cardinality(EssentialSet)

\* The solver has returned for a finder result in which some minterm has
\* several covering implicants and some returned implicant is not essential.
C19_Witness ==
  /\ pc = "format"
  /\ base_expr = None
  /\ Len(prime_implicants) >= 2
  /\ EssentialSet # Listed
  /\ \E m \in base_minterms :
        Cardinality({d \in Listed : m \in GetCoveredMinterms(d, Len(variables))}) >= 2

(***************************************************************************)
(* Properties of the substitution (checked under Spec)                     *)
(***************************************************************************)

\* P occurs in the primary or the secondary expression and the secondary
\* string is non-empty.
SubstitutionApplied ==
  "P" \in AllVars(base_expr, reset_expr) /\ Truthy(reset_expr)

\* C20: whenever substitution is applied, every minterm handed to
\* minimization has its P bit equal to 0 and the returned string contains
\* no letter P.
C20_PivotEliminated ==
  SubstitutionApplied
    => /\ pc \in {"minimize", "search", "format", "done"}
            => \A m \in base_minterms : BitOf(m, "P") = 0
       /\ pc = "done" => \A i \in 1..Len(result) : result[i] # "P"

\* A call whose primary has minterms with P set and whose secondary has
\* minterms has returned a non-empty string.
C20_Witness ==
  /\ pc = "done"
  /\ SubstitutionApplied
  /\ \E m \in ParseExprToMinterms(base_expr, variables) : BitOf(m, "P") = 1
  /\ ParseExprToMinterms(reset_expr, NonPivot) # {}
  /\ Len(result) > 0

====
